---- MODULE Spec2Model ----
(***************************************************************************)
(* A model of jira-changelog: the Slack message chunker and sequential     *)
(* chunk dispatcher (Slack.js) and the CLI pipeline with its range         *)
(* resolution (cli.js).                                                    *)
(*                                                                         *)
(* Strings are sequences of one-character strings.  The per-message size   *)
(* limit of Slack.js (4000) is scaled down to MSG_SIZE_LIMIT below; the    *)
(* continuation marker keeps its real length of three characters.          *)
(***************************************************************************)
EXTENDS Integers, Sequences, FiniteSets, TLC

\* Slack.js:3 - const MSG_SIZE_LIMIT = 4000, scaled down so that texts around
\* the limit can be enumerated.  It stays above 2 * 3 + 3 so that, as with
\* 4000, a hard split makes progress and a two-slice hard split exists.
MSG_SIZE_LIMIT == 10

\* Longest text handed to splitUpMessage in SplitSpec.
MaxTextLen == 12

\* Most tokens a --range or --date argument is joined from.
MaxTokens == 2

\* The characters a text is made of: a letter, a blank and the newline.
Chars == {"a", " ", "\n"}

\* Slack.js:112 - const continuation = '...'
continuation == <<".", ".", ".">>

\* The slice length without room for the marker
limitWithoutMarker == MSG_SIZE_LIMIT

\* Slack.js:113 - const limit = MSG_SIZE_LIMIT - continuation.length
limit == MSG_SIZE_LIMIT - Len(continuation)

----------------------------------------------------------------------------
(* String primitives of JavaScript used by Slack.js                        *)

\* String.prototype.substr(start, length), for 0 <= start
Substr(s, start, length) ==
  IF start >= Len(s) THEN <<>>
  ELSE SubSeq(s, start + 1, IF start + length > Len(s) THEN Len(s) ELSE start + length)

\* String.prototype.substr(start): the rest of the string
SubstrFrom(s, start) == Substr(s, start, Len(s))

\* White space as String.prototype.trim sees it
IsSpace(c) == c \in {" ", "\n"}

RECURSIVE TrimLeft(_)
TrimLeft(s) ==
  IF s = <<>> THEN <<>>
  ELSE IF IsSpace(Head(s)) THEN TrimLeft(Tail(s)) ELSE s

RECURSIVE TrimRight(_)
TrimRight(s) ==
  IF s = <<>> THEN <<>>
  ELSE IF IsSpace(s[Len(s)]) THEN TrimRight(SubSeq(s, 1, Len(s) - 1)) ELSE s

\* String.prototype.trim()
Trim(s) == TrimRight(TrimLeft(s))

\* text.split('\n'): the lines of the text, the newlines removed; a text
\* of n newlines has n + 1 lines, the empty text has the one line ''.
RECURSIVE SplitLines(_, _, _)
SplitLines(s, i, cur) ==
  IF i > Len(s) THEN <<cur>>
  ELSE IF s[i] = "\n" THEN <<cur>> \o SplitLines(s, i + 1, <<>>)
  ELSE SplitLines(s, i + 1, Append(cur, s[i]))

Lines(text) == SplitLines(text, 1, <<>>)

----------------------------------------------------------------------------
(* Slack.splitUpMessage                                                    *)

\* Slack.js:134-144 - the while loop that cuts one over-long line into
\* slices; yields the messages with the slices pushed.
RECURSIVE HardSplit(_, _)
HardSplit(line, messages) ==
  IF Len(line) > 0
  THEN LET last0 == Trim(Substr(line, 0, limit))
           line0 == Trim(SubstrFrom(line, limit))
           last  == IF Len(line0) > 0 THEN last0 \o continuation ELSE last0
           line1 == IF Len(line0) > 0 THEN continuation \o line0 ELSE line0
       IN  HardSplit(line1, Append(messages, last))
  ELSE messages

\* Slack.js:116-147 - lines.forEach: the state [block, messages] after the
\* callback ran on lines[i..]
RECURSIVE ForEachLine(_, _, _, _)
ForEachLine(lines, i, block, messages) ==
  IF i > Len(lines) THEN [block |-> block, messages |-> messages]
  ELSE LET line     == lines[i]
           tmpBlock == block \o line \o <<"\n">>
       IN  IF Len(tmpBlock) <= MSG_SIZE_LIMIT
           THEN ForEachLine(lines, i + 1, tmpBlock, messages)
           ELSE IF Len(block) > 0
                THEN ForEachLine(lines, i + 1, line, Append(messages, block))
                ELSE ForEachLine(lines, i + 1, block, HardSplit(line, messages))

\* The length test of splitUpMessage with < for <=
splitUpMessageStrict(text) ==
  IF Len(text) < MSG_SIZE_LIMIT
  THEN <<text>>
  ELSE LET r == ForEachLine(Lines(text), 1, <<>>, <<>>)
       IN  IF r.block # <<>> THEN Append(r.messages, r.block) ELSE r.messages

\* Slack.js:105-153
splitUpMessage(text) ==
  IF Len(text) <= MSG_SIZE_LIMIT
  THEN <<text>>
  ELSE LET r == ForEachLine(Lines(text), 1, <<>>, <<>>)
       IN  IF r.block # <<>> THEN Append(r.messages, r.block) ELSE r.messages

\* chunks.join('')
RECURSIVE Join(_)
Join(ss) == IF ss = <<>> THEN <<>> ELSE Head(ss) \o Join(Tail(ss))

----------------------------------------------------------------------------
(* cli.js: the command line and the range                                 *)

\* A value that is undefined, or a string s: <<>> or <<s>>
undefined == <<>>
Defined(s) == <<s>>

\* An option commander leaves unset, and one parsed by parseRange
NotGiven == [given |-> FALSE, tokens |-> <<>>]
Given(tokens) == [given |-> TRUE, tokens |-> tokens]

dots == <<".", ".", ".">>

\* cli.js:142-144 - rangeStr.split(/\.{3,3}/): cut at every run of three
\* dots, scanning from the left
RECURSIVE SplitDots(_, _, _)
SplitDots(s, i, cur) ==
  IF i > Len(s) THEN <<cur>>
  ELSE IF i + 2 <= Len(s) /\ SubSeq(s, i, i + 2) = dots
       THEN <<cur>> \o SplitDots(s, i + 3, <<>>)
       ELSE SplitDots(s, i + 1, Append(cur, s[i]))

parseRange(rangeStr) == SplitDots(rangeStr, 1, <<>>)

\* The argument strings tried for --range and --date: the empty string,
\* and up to MaxTokens revisions or dates joined by '...'
RECURSIVE JoinDots(_)
JoinDots(ts) ==
  IF Len(ts) = 1 THEN Head(ts) ELSE Head(ts) \o dots \o JoinDots(Tail(ts))

ArgStrs ==
  {<<>>} \cup {JoinDots([i \in 1..n |-> <<"a">>]) : n \in 1..MaxTokens}

\* Array element access: undefined beyond the end
Elem(arr, i) == IF i + 1 <= Len(arr) THEN Defined(arr[i + 1]) ELSE undefined

\* Property access on the commander object: undefined for a property the
\* option definitions never create
Prop(obj, name) == IF name \in DOMAIN obj THEN obj[name] ELSE NotGiven

\* A Range object: the keys it has and their values
RangeKeys == {"from", "to", "after", "before"}
EmptyRange == [keys |-> {}, val |-> [k \in RangeKeys |-> undefined]]
SetKey(r, k, v) == [keys |-> r.keys \cup {k}, val |-> [r.val EXCEPT ![k] = v]]

\* Object.assign(range, defaultRange)
Assign(r, d) ==
  [keys |-> r.keys \cup d.keys,
   val  |-> [k \in RangeKeys |-> IF k \in d.keys THEN d.val[k] ELSE r.val[k]]]

\* The default ranges a configuration may hold (none, revisions, a date)
DefaultRanges ==
  { EmptyRange,
    SetKey(SetKey(EmptyRange, "from", Defined(<<"p">>)), "to", Defined(<<"m">>)),
    SetKey(EmptyRange, "after", Defined(<<"d">>)) }

\* cli.js:157-160
WithCommitRange(prog, range) ==
  LET r == Prop(prog, "range")
  IN  IF r.given /\ Len(r.tokens) > 0
      THEN SetKey(SetKey(range, "from", Elem(r.tokens, 0)), "to", Elem(r.tokens, 1))
      ELSE range

\* The date range read from program.date, where commander stores --date
WithDateRangeFromDate(prog, range) ==
  LET d == Prop(prog, "date")
  IN  IF d.given /\ Len(d.tokens) > 0
      THEN LET r1 == SetKey(range, "after", Elem(d.tokens, 0))
           IN  IF Len(d.tokens) > 1 THEN SetKey(r1, "before", Elem(d.tokens, 1)) ELSE r1
      ELSE range

\* cli.js:161-166
WithDateRange(prog, range) ==
  LET d == Prop(prog, "dateRange")
  IN  IF d.given /\ Len(d.tokens) > 0
      THEN LET r1 == SetKey(range, "after", Elem(d.tokens, 0))
           IN  IF Len(d.tokens) > 1 THEN SetKey(r1, "before", Elem(d.tokens, 1)) ELSE r1
      ELSE range

\* cli.js:168-171
WithDefaultRange(defaultRange, range) ==
  IF range.keys = {} /\ defaultRange.keys # {}
  THEN Assign(range, defaultRange)
  ELSE range

\* The emptiness check left out
NoRangeDefinedNever(range) == FALSE

\* cli.js:173-175 - the emptiness check
NoRangeDefined(range) == range.keys = {}

\* The two objects getRangeObject holds: the literal {} of cli.js:154 and
\* the default range of the configuration (cli.js:155)
RangeObjects == {"literal", "default"}

\* The variable range naming the default range itself instead of a new object
RangeBindingDefault == "default"

\* cli.js:154 - const range = {}: the object the variable range names
RangeBinding == "literal"

\* cli.js:153-177 - the body run on the two objects: what they hold in the
\* end, which of them is returned, and whether the function threw instead
RunGetRangeObject(prog, cfg) ==
  LET r  == RangeBinding
      h0 == [o \in RangeObjects |->
               IF o = "default" THEN cfg.defaultRange ELSE EmptyRange]
      h1 == [h0 EXCEPT ![r] = WithCommitRange(prog, h0[r])]
      h2 == [h1 EXCEPT ![r] = WithDateRange(prog, h1[r])]
      h3 == [h2 EXCEPT ![r] = WithDefaultRange(h2["default"], h2[r])]
  IN  [heap |-> h3, returned |-> r, threw |-> NoRangeDefined(h3[r])]

\* cli.js:153-177 - the Range, and whether the function threw instead; with
\* it what the default range of the configuration holds after the call
getRangeObject(prog, cfg) ==
  LET o == RunGetRangeObject(prog, cfg)
  IN  [threw |-> o.threw, range |-> o.heap[o.returned],
       defaultRange |-> o.heap["default"]]

----------------------------------------------------------------------------
(* The state of one run of the program                                     *)

VARIABLES
  pc,                \* where runProgram stands
  program,           \* the commander object: the parsed options
  config,            \* what readConfigFile returned
  range,             \* what getRangeObject returned
  changelogMessage,  \* what renderTemplate returned
  spc,               \* where postToSlack stands
  text,              \* the argument of Slack.postMessage / splitUpMessage
  chunks,            \* what splitUpMessage returned
  link,              \* the promise chain of postMessage: one link per chunk
  resp,              \* what the transport answered to each chunk
  posts,             \* the chunks POSTed so far, in order
  promise,           \* the promise postMessage returned
  line,              \* splitUpMessage: what is left of the line being cut
  trace              \* the calls made and the console output, in order

vars == <<pc, program, config, range, changelogMessage, spc, text, chunks,
          link, resp, posts, promise, line, trace>>

pipeVars  == <<pc, program, config, range, changelogMessage>>
slackVars == <<spc, text, chunks, link, resp, posts, promise, line>>

Rep(c, n) == [i \in 1..n |-> c]

\* The changelogs the template renderer (or the transformForSlack hook) may
\* produce: none, a short one, and ones of two and of three chunks
Messages ==
  { <<>>,
    Rep("a", 2),
    Rep("a", MSG_SIZE_LIMIT - 2) \o <<"\n">> \o Rep("a", 2),
    Rep("a", MSG_SIZE_LIMIT - 2) \o <<"\n">> \o Rep("a", MSG_SIZE_LIMIT - 2)
      \o <<"\n">> \o Rep("a", 2) }

\* program.release: not given, given without a name (true), given a name
Releases == {"undefined", "true", "name"}

\* The configurations readConfigFile may return
Configs ==
  [defaultRange : DefaultRanges,
   slack        : [webhookURL : BOOLEAN, channel : BOOLEAN]]

NoConfig == [defaultRange |-> EmptyRange,
             slack |-> [webhookURL |-> FALSE, channel |-> FALSE]]

NoProgram == [range |-> NotGiven, date |-> NotGiven, slack |-> FALSE,
              release |-> "undefined"]

\* What the transport does with one POST: fetch rejects, or it resolves
\* with a response (possibly none) carrying ok and error
NoAnswer == [kind |-> "none", present |-> FALSE, ok |-> FALSE, error |-> FALSE]
Outcomes ==
  { [kind |-> "reject", present |-> FALSE, ok |-> FALSE, error |-> FALSE],
    [kind |-> "response", present |-> FALSE, ok |-> FALSE, error |-> FALSE] }
  \cup [kind : {"response"}, present : {TRUE}, ok : BOOLEAN, error : BOOLEAN]

Init ==
  /\ pc = "start"
  /\ program = NoProgram
  /\ config = NoConfig
  /\ range = EmptyRange
  /\ changelogMessage = <<>>
  /\ spc = "idle"
  /\ text = <<>>
  /\ chunks = <<>>
  /\ link = <<>>
  /\ resp = <<>>
  /\ posts = <<>>
  /\ promise = "none"
  /\ line = <<>>
  /\ trace = <<>>

----------------------------------------------------------------------------
(* cli.js: runProgram                                                      *)

\* cli.js:98-101 - the top-level handler
Catch ==
  /\ trace' = Append(trace, "error")
  /\ pc' = "done"

\* cli.js:25-52 - commander parses argv; --range and --date go through
\* parseRange and land in program.range and program.date
CommandLineArgs ==
  /\ pc = "start"
  /\ \E r \in {NotGiven} \cup {Given(parseRange(a)) : a \in ArgStrs},
        d \in {NotGiven} \cup {Given(parseRange(a)) : a \in ArgStrs},
        s \in BOOLEAN, rel \in Releases :
       program' = [range |-> r, date |-> d, slack |-> s, release |-> rel]
  /\ pc' = "readConfig"
  /\ UNCHANGED <<config, range, changelogMessage, trace>>
  /\ UNCHANGED slackVars

\* cli.js:61-70
ReadConfigFile ==
  /\ pc = "readConfig"
  /\ \/ /\ \E c \in Configs : config' = c
        /\ trace' = Append(trace, "readConfigFile")
        /\ pc' = "release"
     \/ /\ Catch
        /\ UNCHANGED config
  /\ UNCHANGED <<program, range, changelogMessage>>
  /\ UNCHANGED slackVars

\* The release check without the return after the guidance message
ReleaseFlagNoReturn ==
  /\ pc = "release"
  /\ IF program.release = "true"
     THEN \E isFunction \in BOOLEAN :
            IF isFunction
            THEN /\ trace' = Append(trace, "generateReleaseVersionName")
                 /\ pc' = "releaseName"
            ELSE /\ trace' = Append(trace, "guidance")
                 /\ pc' = "range"
     ELSE /\ pc' = "range"
          /\ UNCHANGED trace
  /\ UNCHANGED <<program, config, range, changelogMessage>>
  /\ UNCHANGED slackVars

\* cli.js:72-79
ReleaseFlag ==
  /\ pc = "release"
  /\ IF program.release = "true"
     THEN \E isFunction \in BOOLEAN :
            IF isFunction
            THEN /\ trace' = Append(trace, "generateReleaseVersionName")
                 /\ pc' = "releaseName"
            ELSE /\ trace' = Append(trace, "guidance")
                 /\ pc' = "done"
     ELSE /\ pc' = "range"
          /\ UNCHANGED trace
  /\ UNCHANGED <<program, config, range, changelogMessage>>
  /\ UNCHANGED slackVars

\* cli.js:78 - the await of config.jira.generateReleaseVersionName()
ReleaseNameSettled ==
  /\ pc = "releaseName"
  /\ \/ /\ program' = [program EXCEPT !.release = "name"]
        /\ pc' = "range"
        /\ UNCHANGED trace
     \/ /\ Catch
        /\ UNCHANGED program
  /\ UNCHANGED <<config, range, changelogMessage>>
  /\ UNCHANGED slackVars

\* cli.js:82-83 - getRangeObject; its throw lands in the top-level handler
GetRange ==
  /\ pc = "range"
  /\ LET r == getRangeObject(program, config)
     IN  /\ IF r.threw
            THEN /\ trace' = trace \o <<"getRangeObject", "error">>
                 /\ pc' = "done"
                 /\ UNCHANGED range
            ELSE /\ range' = r.range
                 /\ trace' = trace \o <<"getRangeObject", "getCommitLogs">>
                 /\ pc' = "commitLogs"
         /\ config' = [config EXCEPT !.defaultRange = r.defaultRange]
  /\ UNCHANGED <<program, changelogMessage>>
  /\ UNCHANGED slackVars

\* A failed commit fetch that is reported but does not end the run
CommitLogsSettledSwallow ==
  /\ pc = "commitLogs"
  /\ \/ /\ trace' = Append(trace, "jira.generate")
        /\ pc' = "jira"
     \/ /\ trace' = trace \o <<"error", "jira.generate">>
        /\ pc' = "jira"
  /\ UNCHANGED <<program, config, range, changelogMessage>>
  /\ UNCHANGED slackVars

\* cli.js:83-84 - the await of source.getCommitLogs
CommitLogsSettled ==
  /\ pc = "commitLogs"
  /\ \/ /\ trace' = Append(trace, "jira.generate")
        /\ pc' = "jira"
     \/ Catch
  /\ UNCHANGED <<program, config, range, changelogMessage>>
  /\ UNCHANGED slackVars

\* cli.js:84-87 - the await of jira.generate
JiraSettled ==
  /\ pc = "jira"
  /\ \/ /\ trace' = Append(trace, "generateTemplateData")
        /\ pc' = "tmplData"
     \/ Catch
  /\ UNCHANGED <<program, config, range, changelogMessage>>
  /\ UNCHANGED slackVars

\* cli.js:87-92 - the await of generateTemplateData, renderTemplate and the
\* print of the decoded message
TmplDataSettled ==
  /\ pc = "tmplData"
  /\ \/ /\ \E m \in Messages : changelogMessage' = m
        /\ trace' = trace \o <<"renderTemplate", "print">>
        /\ pc' = "slack"
     \/ /\ Catch
        /\ UNCHANGED changelogMessage
     \/ /\ trace' = trace \o <<"renderTemplate", "error">>
        /\ pc' = "done"
        /\ UNCHANGED changelogMessage
  /\ UNCHANGED <<program, config, range>>
  /\ UNCHANGED slackVars

\* The integration taken for enabled whatever the configuration
isEnabledAlways(cfg) == TRUE

\* Slack.js:17-19
isEnabled(cfg) == cfg.slack.webhookURL

\* cli.js:94-97 and cli.js:111-119 - the call of postToSlack, up to its try
PostToSlack ==
  /\ pc = "slack"
  /\ pc' = "done"
  /\ IF program.slack
     THEN IF ~isEnabled(config) \/ ~config.slack.channel
          THEN /\ trace' = Append(trace, "notConfigured")
               /\ spc' = "done"
          ELSE /\ trace' = Append(trace, "posting")
               /\ spc' = "transform"
     ELSE UNCHANGED <<trace, spc>>
  /\ UNCHANGED <<program, config, range, changelogMessage>>
  /\ UNCHANGED <<text, chunks, link, resp, posts, promise, line>>

\* The delivery step without its handler: the failure leaves postToSlack
CatchDeliveryRethrow ==
  /\ trace' = Append(trace, "unhandledRejection")
  /\ spc' = "done"

\* cli.js:131-133 - the handler of the delivery step
CatchDelivery ==
  /\ trace' = Append(trace, "slackError")
  /\ spc' = "done"

\* cli.js:122-125
TransformForSlack ==
  /\ spc = "transform"
  /\ \E isFunction \in BOOLEAN :
       IF isFunction
       THEN \/ /\ trace' = Append(trace, "transformForSlack")
               /\ spc' = "transformed"
               /\ UNCHANGED text
            \/ /\ trace' = trace \o <<"transformForSlack", "slackError">>
               /\ spc' = "done"
               /\ UNCHANGED text
       ELSE /\ text' = changelogMessage
            /\ spc' = "postMessage"
            /\ UNCHANGED trace
  /\ UNCHANGED pipeVars
  /\ UNCHANGED <<chunks, link, resp, posts, promise, line>>

\* cli.js:124 - the await of what transformForSlack returned
TransformSettled ==
  /\ spc = "transformed"
  /\ \/ /\ \E m \in Messages : text' = m
        /\ spc' = "postMessage"
        /\ UNCHANGED trace
     \/ /\ CatchDelivery
        /\ UNCHANGED text
  /\ UNCHANGED pipeVars
  /\ UNCHANGED <<chunks, link, resp, posts, promise, line>>

----------------------------------------------------------------------------
(* Slack.js: postMessage                                                   *)

\* Slack.js:63-95 - the call: the checks, the split and the promise chain
PostMessage ==
  /\ spc = "postMessage"
  /\ spc' = "sending"
  /\ IF Len(text) = 0
     THEN /\ promise' = "rejected"
          /\ UNCHANGED <<chunks, link, resp>>
     ELSE IF ~isEnabled(config)
     THEN /\ promise' = "resolved"
          /\ UNCHANGED <<chunks, link, resp>>
     ELSE /\ chunks' = splitUpMessage(text)
          /\ link' = [i \in 1..Len(chunks') |-> "waiting"]
          /\ resp' = [i \in 1..Len(chunks') |-> NoAnswer]
          /\ promise' = "pending"
  /\ UNCHANGED pipeVars
  /\ UNCHANGED <<text, posts, line, trace>>

\* Every chunk sent at once instead of one after the other
ChainReadyAtOnce(i) == TRUE

\* Slack.js:78-80 - the callback of link i runs once the promise before it
\* resolved (the first follows Promise.resolve())
ChainReady(i) == IF i = 1 THEN TRUE ELSE link[i - 1] = "resolved"

\* A failed chunk put back to be sent again
RejectRetry(i) == [link EXCEPT ![i] = "waiting"]

\* A rejection skips the callbacks of the links that still wait
Reject(i) ==
  [j \in DOMAIN link |->
     IF j = i \/ (j > i /\ link[j] = "waiting") THEN "rejected" ELSE link[j]]

\* Slack.js:28-53, 84-85 - sendChunk calls postChunk, which starts the POST
SendChunk(i) ==
  /\ spc = "sending"
  /\ link[i] = "waiting"
  /\ ChainReady(i)
  /\ IF ~isEnabled(config)
     THEN /\ link' = Reject(i)
          /\ promise' = "rejected"
          /\ UNCHANGED <<posts, trace>>
     ELSE /\ link' = [link EXCEPT ![i] = "posting"]
          /\ posts' = Append(posts, i)
          /\ trace' = Append(trace, "POST")
          /\ UNCHANGED promise
  /\ UNCHANGED pipeVars
  /\ UNCHANGED <<spc, text, chunks, resp, line>>

\* The check of the response left out
ResponseNeverFails(r) == FALSE

\* An error payload taken for a failure as well
ResponseFailsOnError(r) == r.present /\ (~r.ok \/ r.error)

\* Slack.js:86-88 - if (response && !response.ok) throw response.error
ResponseFails(r) == r.present /\ ~r.ok

\* Slack.js:49-52, 85-90 - the POST of chunk i settles
Respond(i) ==
  /\ link[i] = "posting"
  /\ \E r \in Outcomes :
       /\ resp' = [resp EXCEPT ![i] = r]
       /\ IF r.kind = "reject" \/ ResponseFails(r)
          THEN /\ link' = Reject(i)
               /\ promise' = "rejected"
          ELSE /\ link' = [link EXCEPT ![i] = "resolved"]
               /\ promise' = IF i = Len(chunks) THEN "resolved" ELSE promise
  /\ UNCHANGED pipeVars
  /\ UNCHANGED <<spc, text, chunks, posts, line, trace>>

\* cli.js:128-133 - the await of slack.postMessage
SendSettled ==
  /\ spc = "sending"
  /\ promise \in {"resolved", "rejected"}
  /\ IF promise = "resolved"
     THEN /\ trace' = Append(trace, "slackDone")
          /\ spc' = "done"
     ELSE CatchDelivery
  /\ UNCHANGED pipeVars
  /\ UNCHANGED <<text, chunks, link, resp, posts, promise, line>>

SendNextChunk == \E i \in DOMAIN link : SendChunk(i)

TransportSettles == \E i \in DOMAIN link : Respond(i)

Next ==
  \/ CommandLineArgs
  \/ ReadConfigFile
  \/ ReleaseFlag
  \/ ReleaseNameSettled
  \/ GetRange
  \/ CommitLogsSettled
  \/ JiraSettled
  \/ TmplDataSettled
  \/ PostToSlack
  \/ TransformForSlack
  \/ TransformSettled
  \/ PostMessage
  \/ SendNextChunk
  \/ TransportSettles
  \/ SendSettled

Spec == Init /\ [][Next]_vars

\* Every continuation that is ready runs, and the transport settles every
\* POST
FairSpec == Spec /\ WF_vars(Next)

----------------------------------------------------------------------------
(* Slack.splitUpMessage on its own, over every text up to MaxTextLen       *)

\* The texts of n characters
Texts(n) == [1..n -> Chars]

InitSplit ==
  /\ pc = "split"
  /\ program = NoProgram
  /\ config = NoConfig
  /\ range = EmptyRange
  /\ changelogMessage = <<>>
  /\ spc = "idle"
  /\ \E n \in 0..MaxTextLen : text \in Texts(n)
  /\ chunks = <<>>
  /\ link = <<>>
  /\ resp = <<>>
  /\ posts = <<>>
  /\ promise = "none"
  /\ line = <<>>
  /\ trace = <<>>

SplitUp ==
  /\ pc = "split"
  /\ chunks' = splitUpMessage(text)
  /\ pc' = "splitDone"
  /\ UNCHANGED <<program, config, range, changelogMessage, spc, text, link,
                 resp, posts, promise, line, trace>>

SplitSpec == InitSplit /\ [][SplitUp]_vars

----------------------------------------------------------------------------
(* The while loop of Slack.splitUpMessage, pass by pass, over every line   *)
(* that can enter it: the block is empty and the line with its newline     *)
(* exceeds the limit                                                       *)

\* One pass in which the line is trimmed but not cut
HardSplitPassNoCut(l) ==
  LET last0 == Trim(Substr(l, 0, limit))
      line0 == Trim(l)
  IN  [last |-> IF Len(line0) > 0 THEN last0 \o continuation ELSE last0,
       line |-> IF Len(line0) > 0 THEN continuation \o line0 ELSE line0]

\* Slack.js:135-143 - one pass of the loop: the slice pushed and what is
\* left of the line
HardSplitPass(l) ==
  LET last0 == Trim(Substr(l, 0, limit))
      line0 == Trim(SubstrFrom(l, limit))
  IN  [last |-> IF Len(line0) > 0 THEN last0 \o continuation ELSE last0,
       line |-> IF Len(line0) > 0 THEN continuation \o line0 ELSE line0]

\* The lines without a newline, of n characters
LinesOf(n) == [1..n -> Chars \ {"\n"}]

InitLoop ==
  /\ pc = "hardSplit"
  /\ program = NoProgram
  /\ config = NoConfig
  /\ range = EmptyRange
  /\ changelogMessage = <<>>
  /\ spc = "idle"
  /\ \E n \in MSG_SIZE_LIMIT..MaxTextLen : text \in LinesOf(n)
  /\ line = text
  /\ chunks = <<>>
  /\ link = <<>>
  /\ resp = <<>>
  /\ posts = <<>>
  /\ promise = "none"
  /\ trace = <<>>

\* Slack.js:134-144 - one pass: while (line.length > 0) { ... }
HardSplitStep ==
  /\ pc = "hardSplit"
  /\ Len(line) > 0
  /\ chunks' = Append(chunks, HardSplitPass(line).last)
  /\ line' = HardSplitPass(line).line
  /\ UNCHANGED <<pc, program, config, range, changelogMessage, spc, text, link,
                 resp, posts, promise, trace>>

\* Slack.js:134 - the loop ends with the line used up
HardSplitExit ==
  /\ pc = "hardSplit"
  /\ Len(line) = 0
  /\ pc' = "hardSplitDone"
  /\ UNCHANGED <<program, config, range, changelogMessage, spc, text, chunks,
                 link, resp, posts, promise, line, trace>>

NextLoop == HardSplitStep \/ HardSplitExit

\* The loop runs to its end without a suspension point
LoopSpec == InitLoop /\ [][NextLoop]_vars /\ WF_vars(NextLoop)

----------------------------------------------------------------------------
TypeOK ==
  /\ pc \in {"split", "splitDone", "hardSplit", "hardSplitDone", "start", "readConfig", "release", "releaseName", "range",
             "commitLogs", "jira", "tmplData", "slack", "done"}
  /\ spc \in {"idle", "transform", "transformed", "postMessage", "sending", "done"}
  /\ promise \in {"none", "pending", "resolved", "rejected"}
----------------------------------------------------------------------------
(* Slack.splitUpMessage: the chunks                                        *)

SplitDone == pc = "splitDone"

IsPrefix(p, s) == Len(p) <= Len(s) /\ SubSeq(s, 1, Len(p)) = p
IsSuffix(p, s) == Len(p) <= Len(s) /\ SubSeq(s, Len(s) - Len(p) + 1, Len(s)) = p

\* C1: every chunk splitUpMessage returns is at most MSG_SIZE_LIMIT long,
\* whatever the text.
C1_ChunksWithinLimit ==
  SplitDone => \A i \in 1..Len(chunks) : Len(chunks[i]) <= MSG_SIZE_LIMIT

NoLineOverLimit(t) ==
  \A i \in 1..Len(Lines(t)) : Len(Lines(t)[i]) <= MSG_SIZE_LIMIT

\* C6: for a text longer than the limit none of whose lines exceeds the
\* limit, the chunks joined in order are the text again.
C6_RoundTrip ==
  (SplitDone /\ Len(text) > MSG_SIZE_LIMIT /\ NoLineOverLimit(text))
    => Join(chunks) = text

\* C7: a text of at most MSG_SIZE_LIMIT characters comes back as the one
\* chunk that is the text itself.
C7_ShortTextOneChunk ==
  (SplitDone /\ Len(text) <= MSG_SIZE_LIMIT) => chunks = <<text>>

C7_Witness ==
  SplitDone /\ Len(text) = MSG_SIZE_LIMIT /\ chunks = <<text>>

\* A text that is one line without white space, longer than the limit
OneLongLine(t) ==
  /\ Len(t) > MSG_SIZE_LIMIT
  /\ \A i \in 1..Len(t) : ~IsSpace(t[i])

\* Every chunk but the last ends with the marker, every chunk but the first
\* begins with it
Marked(cs) ==
  /\ \A i \in 1..(Len(cs) - 1) : IsSuffix(continuation, cs[i])
  /\ \A i \in 2..Len(cs) : IsPrefix(continuation, cs[i])

\* The lengths for which the remainder of the line, with its marker, fits
\* the second slice (5000 with the limit of 4000)
TwoSlices(t) == Len(t) <= 2 * limit - Len(continuation)

\* C8 as stated: the chunks of one long line are marked, and when two slices
\* suffice there are two chunks, the first MSG_SIZE_LIMIT - 3 long.
C8_HardSplitAsStated ==
  (SplitDone /\ OneLongLine(text)) =>
    /\ Marked(chunks)
    /\ TwoSlices(text) =>
         /\ Len(chunks) = 2
         /\ Len(chunks[1]) = MSG_SIZE_LIMIT - 3
         /\ chunks[2] = continuation \o SubstrFrom(text, limit)

\* C8 amended: the chunks of one long line are marked, and when two slices
\* suffice there are two chunks: the first is the first MSG_SIZE_LIMIT - 3
\* characters followed by the marker (MSG_SIZE_LIMIT long in all), the
\* second the marker followed by the rest.
C8_HardSplit ==
  (SplitDone /\ OneLongLine(text)) =>
    /\ Len(chunks) >= 2
    /\ Marked(chunks)
    /\ TwoSlices(text) =>
         /\ Len(chunks) = 2
         /\ chunks[1] = SubSeq(text, 1, MSG_SIZE_LIMIT - 3) \o continuation
         /\ Len(chunks[1]) = MSG_SIZE_LIMIT
         /\ chunks[2] = continuation \o SubSeq(text, MSG_SIZE_LIMIT - 2, Len(text))

C8_Witness ==
  /\ SplitDone /\ OneLongLine(text) /\ TwoSlices(text)
  /\ Len(chunks) = 2 /\ Len(chunks[1]) = MSG_SIZE_LIMIT
----------------------------------------------------------------------------
(* Slack.postMessage: the dispatch of the chunks                           *)

\* The chunks whose POST is in flight
InFlight == {i \in DOMAIN link : link[i] = "posting"}

\* C2: at most one chunk POST is in flight, and a chunk was POSTed only
\* after the POST of every chunk before it resolved successfully.
C2_Sequential ==
  /\ Cardinality(InFlight) <= 1
  /\ \A n \in 1..Len(posts) : \A j \in 1..(posts[n] - 1) : link[j] = "resolved"

C2_Witness ==
  /\ Len(chunks) = 3
  /\ link = <<"resolved", "posting", "waiting">>
  /\ posts = <<1, 2>>

\* The dispatch of chunk k failed: its POST rejected, or was answered with
\* a response that is not ok
DispatchFailedAt(k) ==
  \/ resp[k].kind = "reject"
  \/ resp[k].kind = "response" /\ resp[k].present /\ ~resp[k].ok

\* C3: once the dispatch of chunk k failed, exactly the chunks 1..k were
\* POSTed, the chunks after k are not sent, and the promise of postMessage
\* is rejected.
C3_FailureAborts ==
  \A k \in DOMAIN link :
    DispatchFailedAt(k) =>
      /\ posts = [n \in 1..k |-> n]
      /\ \A j \in DOMAIN link : j > k => link[j] \notin {"posting", "resolved"}
      /\ promise = "rejected"

C3_Witness ==
  /\ Len(chunks) = 3
  /\ DispatchFailedAt(2)
  /\ Len(posts) = 2
  /\ promise = "rejected"
  /\ spc = "done"

\* Every chunk was POSTed once, in order, and accepted
AllAccepted ==
  /\ posts = [n \in 1..Len(chunks) |-> n]
  /\ \A i \in DOMAIN link : link[i] = "resolved"

DispatchFailed == \E k \in DOMAIN link : link[k] = "rejected"

\* C4: the promise of postMessage is resolved only when every chunk was
\* POSTed and accepted, and once the chunks are being sent it does resolve
\* unless the dispatch of a chunk fails.
C4_ResolvesWhenAllAccepted ==
  /\ [](promise = "resolved" => AllAccepted)
  /\ (promise = "pending") ~> (promise = "resolved" \/ DispatchFailed)

C4_Witness ==
  /\ Len(chunks) = 3
  /\ promise = "resolved"
  /\ AllAccepted

\* The response to chunk i lacks an explicit ok, or carries an error
LacksOkOrHasError(i) ==
  /\ resp[i].kind = "response"
  /\ ~resp[i].present \/ ~resp[i].ok \/ resp[i].error

\* Chunk i was the last one sent and postMessage failed
AbortedAt(i) ==
  /\ link[i] = "rejected"
  /\ Len(posts) = i
  /\ promise = "rejected"

\* C5 as stated: a response that lacks an explicit ok or carries an error
\* payload rejects the chunk, and no later chunk is sent.
C5_AsStated ==
  \A i \in DOMAIN link : LacksOkOrHasError(i) => AbortedAt(i)

\* C5 amended: a response fails the dispatch exactly when it is present and
\* its ok is false, whatever its error payload; then no later chunk is sent.
\* No response at all, and a response with ok true that carries an error
\* payload, count as accepted.
C5_NotOkFails ==
  \A i \in DOMAIN link :
    resp[i].kind = "response" =>
      IF resp[i].present /\ ~resp[i].ok
      THEN AbortedAt(i)
      ELSE link[i] = "resolved"

C5_Witness ==
  /\ Len(chunks) = 3
  /\ resp[1] = [kind |-> "response", present |-> TRUE, ok |-> TRUE, error |-> TRUE]
  /\ link[1] = "resolved"
  /\ resp[2] = [kind |-> "response", present |-> TRUE, ok |-> FALSE, error |-> FALSE]
  /\ AbortedAt(2)

----------------------------------------------------------------------------
(* cli.js: getRangeObject                                                  *)

Events == {trace[i] : i \in 1..Len(trace)}

\* getRangeObject was called, and it threw
RangeCalled == "getRangeObject" \in Events
RangeThrew ==
  \E i \in 1..(Len(trace) - 1) :
    trace[i] = "getRangeObject" /\ trace[i + 1] = "error"

\* The Range of one date, and of two
AfterOnly(d) == SetKey(EmptyRange, "after", Defined(d))
AfterBefore(d, e) == SetKey(AfterOnly(d), "before", Defined(e))

\* C9: with --date and no --range, getRangeObject returns the Range that
\* has only after for one date, and after and before for two.
C9_DateRange ==
  (RangeCalled /\ program.date.given /\ ~program.range.given) =>
    LET d == program.date.tokens
    IN  /\ Len(d) = 1 => (~RangeThrew /\ range = AfterOnly(d[1]))
        /\ Len(d) = 2 => (~RangeThrew /\ range = AfterBefore(d[1], d[2]))

\* The stages that follow the range resolution
LaterStages ==
  {"getCommitLogs", "jira.generate", "generateTemplateData", "renderTemplate",
   "print", "POST"}

\* C10: getRangeObject throws when there is no commit range, no date range
\* and no non-empty default; a Range it returns has a populated field; and
\* after it threw, none of the later stages runs.
C10_NoRangeFails ==
  RangeCalled =>
    /\ (~program.range.given /\ ~program.date.given /\ config.defaultRange.keys = {})
         => RangeThrew
    /\ ~RangeThrew => \E k \in range.keys : range.val[k] # undefined
    /\ RangeThrew => (Events \cap LaterStages = {} /\ pc = "done" /\ spc = "idle")

C10_Witness ==
  /\ ~program.range.given /\ ~program.date.given /\ config.defaultRange.keys = {}
  /\ RangeThrew
  /\ pc = "done"

C12_MalformedRangeFails ==
  (RangeCalled /\ program.range.given /\ Len(program.range.tokens) < 2)
    => RangeThrew

----------------------------------------------------------------------------
(* cli.js: runProgram and postToSlack                                      *)

\* C13: once the guidance message is printed (release flag without a name,
\* no generateReleaseVersionName function) the run is over: nothing but the
\* configuration load came before it, nothing follows it, and no error is
\* reported.
C13_SoftExit ==
  "guidance" \in Events =>
    /\ program.release = "true"
    /\ trace = <<"readConfigFile", "guidance">>
    /\ pc = "done"
    /\ spc = "idle"
    /\ posts = <<>>

C13_Witness ==
  /\ program.release = "true"
  /\ program.slack
  /\ trace = <<"readConfigFile", "guidance">>
  /\ pc = "done"

LastEvent == IF trace = <<>> THEN "none" ELSE trace[Len(trace)]

\* C14: the delivery step starts only after the changelog was printed, and
\* however it fails (the hook, an empty text, a chunk) the failure is logged
\* by the handler of postToSlack: it ends in done, the diagnostic or the
\* logged error, never in the top-level handler or outside every handler.
C14_DeliveryNonFatal ==
  /\ spc # "idle" => ("print" \in Events /\ "error" \notin Events /\ pc = "done")
  /\ "unhandledRejection" \notin Events
  /\ (spc = "done" /\ promise = "rejected") => LastEvent = "slackError"
  /\ spc = "done" => LastEvent \in {"slackDone", "notConfigured", "slackError"}

C14_Witness ==
  /\ spc = "done"
  /\ text = <<>>
  /\ promise = "rejected"
  /\ posts = <<>>
  /\ LastEvent = "slackError"
  /\ "print" \in Events

Configured == config.slack.webhookURL /\ config.slack.channel

\* C15: without a webhook URL or without a channel postToSlack prints the
\* diagnostic and does nothing else: no hook call and no POST; the hook is
\* called and a POST is made only with both set.
C15_DispatchPreconditions ==
  /\ (Events \cap {"posting", "transformForSlack", "POST"} # {}) => Configured
  /\ spc \notin {"idle", "done"} => Configured
  /\ "notConfigured" \in Events =>
       /\ ~Configured
       /\ LastEvent = "notConfigured"
       /\ spc = "done" /\ promise = "none" /\ posts = <<>>
  /\ (program.slack /\ "print" \in Events /\ pc = "done" /\ ~Configured)
       => "notConfigured" \in Events

C15_Witness ==
  /\ program.slack
  /\ config.slack.webhookURL /\ ~config.slack.channel
  /\ LastEvent = "notConfigured"
  /\ spc = "done"

\* The stages of runProgram, in the order of the code
PipeOrder ==
  <<"readConfigFile", "getRangeObject", "getCommitLogs", "jira.generate",
    "generateTemplateData", "renderTemplate", "print">>

IsStage(e) == \E n \in 1..Len(PipeOrder) : PipeOrder[n] = e
IsError(e) == e = "error"

\* C16: the stages run in the order of PipeOrder, each at most once; the
\* top-level handler reports at most one error, and after it no stage runs,
\* nothing is printed and nothing is POSTed.
C16_PipelineOrder ==
  /\ IsPrefix(SelectSeq(trace, IsStage), PipeOrder)
  /\ Len(SelectSeq(trace, IsError)) <= 1
  /\ "error" \in Events =>
       /\ LastEvent = "error"
       /\ "print" \notin Events
       /\ pc = "done" /\ spc = "idle" /\ posts = <<>>

C16_Witness ==
  /\ program.slack
  /\ trace = <<"readConfigFile", "getRangeObject", "getCommitLogs",
               "jira.generate", "error">>
  /\ pc = "done"

\* The bodies POSTed so far
Bodies == [n \in 1..Len(posts) |-> chunks[posts[n]]]

\* C17: the bodies POSTed so far are the first chunks of
\* splitUpMessage(text), in order, each chunk POSTed once at most.
C17_NoRetryInOrder ==
  /\ posts = [n \in 1..Len(posts) |-> n]
  /\ Len(posts) <= Len(chunks)
  /\ posts # <<>> => IsPrefix(Bodies, splitUpMessage(text))

C17_Witness ==
  /\ Len(chunks) = 3
  /\ resp[1].kind = "response" /\ resp[1].present /\ resp[1].ok
  /\ resp[2].kind = "reject"
  /\ posts = <<1, 2>>
  /\ spc = "done"

\* The command line leaves the Range without a key, and there is a default
DefaultUsed ==
  /\ WithDateRange(program, WithCommitRange(program, EmptyRange)).keys = {}
  /\ config.defaultRange.keys # {}

\* C18: getRangeObject returns an object of its own, not the default range
\* of the configuration, and leaves the default range as it was; when the
\* default is used, the Range holds a copy of its fields.
C18_DefaultNotMutated ==
  /\ [](pc = "range" =>
          LET o == RunGetRangeObject(program, config)
          IN  /\ o.returned # "default"
              /\ o.heap["default"] = config.defaultRange)
  /\ []((RangeCalled /\ DefaultUsed) => (~RangeThrew /\ range = config.defaultRange))
  /\ [][pc = "range" => config' = config]_vars

C18_Witness ==
  /\ RangeCalled /\ DefaultUsed
  /\ program.date.given
  /\ range.keys = {"from", "to"}
  /\ range = config.defaultRange

----------------------------------------------------------------------------
(* Slack.splitUpMessage: the end of the hard split, and empty chunks       *)

\* C19: every pass of the hard-split loop leaves a strictly shorter line, so
\* the loop ends; it ends with the slices HardSplit computes.
C19_HardSplitTerminates ==
  /\ [][(pc = "hardSplit" /\ Len(line) > 0) => Len(line') < Len(line)]_vars
  /\ <>(pc = "hardSplitDone")
  /\ [](pc = "hardSplitDone" => (line = <<>> /\ chunks = HardSplit(text, <<>>)))

C19_Witness ==
  /\ pc = "hardSplitDone"
  /\ Len(text) = MaxTextLen
  /\ Len(chunks) >= 3
  /\ IsPrefix(continuation, chunks[Len(chunks)])

\* C20: every chunk of a non-empty text is a non-empty string.
C20_NoEmptyChunk ==
  (SplitDone /\ Len(text) > 0) => \A i \in 1..Len(chunks) : Len(chunks[i]) > 0
====
